---- MODULE Spec2Model ----
(***************************************************************************)
(* M3UCollector (src/BugsfreeMain/RadioStations-Worldwide.py): the crawl   *)
(* of process_sources, the M3U / PLS / HTML parsers it dispatches to, and  *)
(* the link validation of filter_active_channels / check_link_active.      *)
(*                                                                         *)
(* A URL string is a record of the facts the code reads off it:            *)
(*   file  - os.path.basename(urlparse(u).path)                            *)
(*   ext   - the suffix of urlparse(u).path.lower() that endswith() tests  *)
(*   valid - urlparse(u) returns (FALSE: it raises ValueError, as it does  *)
(*           for "http://[bad/x")                                          *)
(*   kw    - the text holds one of playlist/stream/listen/play/hls         *)
(*   deny  - the text holds one of the extractor's excluded substrings     *)
(* URLs carry no query string, so the suffix of the text is that of the    *)
(* path.  A name is a sequence of strings (the pieces of an f-string).     *)
(***************************************************************************)
EXTENDS Integers, Sequences, FiniteSets, TLC

VARIABLES
    check_links,   \* self.check_links
    channels,      \* self.channels, flattened: the entries in insertion order, each with its group
    seen_urls,     \* self.seen_urls
    url_status_cache, \* self.url_status_cache: url -> "none" (no key) | "live" | "dead"
    pc,            \* where the caller of the collector stands
    processing_queue, \* process_sources: processing_queue
    visited,       \* process_sources: processed_or_queued_m3u_sources
    fetched,       \* history: the URLs handed to fetch_content in this run, in order
    step,          \* process_sources: the locals of the current loop iteration and of the parser it called
    futures,       \* filter_active_channels: one record per submitted check_link_active call
    active_channels, \* filter_active_channels: active_channels
    runs,          \* history: the process_sources calls made on this collector
    depth          \* history: for each URL queued in this run, its distance from the seeds (-1: not queued)

vars == <<check_links, channels, seen_urls, url_status_cache, pc, processing_queue,
          visited, fetched, step, futures, active_channels, runs, depth>>

(* ------------------------------ bounds --------------------------------- *)
MaxLines == 2      \* lines of a fetched playlist body
MaxSeeds == 2      \* length of initial_source_urls
MaxLinks == 1      \* links of a fetched HTML page
MaxCalls == 2      \* concurrent check_link_active calls of the CallSpec harness
MaxRuns == 2       \* process_sources calls on one collector, in RerunSpec

(* ------------------------------- URLs ---------------------------------- *)
MkUrl(file, ext, valid, http, kw, deny) ==
    [file |-> file, ext |-> ext, valid |-> valid, http |-> http, kw |-> kw, deny |-> deny]

UM3u   == MkUrl("a.m3u",     ".m3u",  TRUE,  TRUE,  FALSE, FALSE)  \* http://h/a.m3u
UPls   == MkUrl("b.pls",     ".pls",  TRUE,  TRUE,  FALSE, FALSE)  \* http://h/b.pls
UAshx  == MkUrl("tune.ashx", ".ashx", TRUE,  TRUE,  FALSE, FALSE)  \* http://h/tune.ashx
UHls   == MkUrl("c.m3u8",    ".m3u8", TRUE,  TRUE,  FALSE, FALSE)  \* http://h/c.m3u8
UMp3   == MkUrl("d.mp3",     ".mp3",  TRUE,  TRUE,  FALSE, FALSE)  \* http://h/d.mp3
UPage  == MkUrl("p.html",    ".html", TRUE,  TRUE,  FALSE, TRUE)   \* http://h/p.html
ULogin == MkUrl("login",     "",      TRUE,  TRUE,  TRUE,  TRUE)   \* https://github.com/login?to=play
URtmp  == MkUrl("live",      "",      TRUE,  FALSE, TRUE,  FALSE)  \* rtmp://h/stream/live
UTgM3u == MkUrl("t.m3u",     ".m3u",  TRUE,  TRUE,  FALSE, TRUE)   \* http://h/telegram/t.m3u
UBad   == MkUrl("",          "",      FALSE, TRUE,  FALSE, FALSE)  \* http://[bad/x

Urls == {UM3u, UPls, UAshx, UHls, UMp3, UPage, ULogin, URtmp, UTgM3u, UBad}

\* str.endswith(tuple) on the path of a URL that urlparse accepted
EndsWith(u, exts) == u.ext \in exts

RequeueExts == {".m3u", ".pls", ".ashx"}
HtmlQueueExts == {".m3u", ".m3u8", ".pls", ".ashx"}
MediaExts == {".ts", ".mp4", ".avi", ".mkv", ".flv", ".wmv", ".aac", ".mp3", ".ogg", ".opus"}

default_logo == "no-logo.png"

(* ---------------------------- fetched lines ---------------------------- *)
\* name/group/logo of an #EXTINF line are "" when the attribute or the ",name" part is missing
HdrLine == [t |-> "hdr"]                                  \* #EXTM3U
InfLine(name, group, logo) == [t |-> "inf", name |-> name, group |-> group, logo |-> logo]
UrlLine(u) == [t |-> "url", u |-> u]                      \* a line that starts with a scheme
FileLine(n, u) == [t |-> "file", n |-> n, u |-> u]        \* FileN=u
TitleLine(n, name) == [t |-> "title", n |-> n, name |-> name] \* TitleN=name
JunkLine == [t |-> "junk"]                                \* blank, comment, or text without '='

(* --------------------------- parse_and_store --------------------------- *)
\* The state of one parser call: the pending entry (<<>> is the empty dict), the
\* store and seen_urls as written so far, the re-queue list, the number of stream
\* URLs dropped as already seen, whether an exception left the call, and whether
\* a pending entry was discarded for a nested playlist.
ParseState(chans, seen) ==
    [cur |-> <<>>, chans |-> chans, seen |-> seen, requeue |-> <<>>,
     dropped |-> FALSE, raised |-> FALSE, discarded |-> FALSE]

\* lines 176-187: the pending entry built from one #EXTINF line
ExtinfInfo(line, src) ==
    [name   |-> IF line.name = "" THEN <<"Unnamed Station">> ELSE <<line.name>>,
     logo   |-> IF line.logo = "" THEN default_logo ELSE line.logo,
     group  |-> IF line.group = "" THEN "Uncategorized" ELSE line.group,
     source |-> src]

\* IsTargetPlaylistForRequeue with .m3u8 among the suffixes of line 192
IsTargetPlaylistWithM3u8(u) == u.valid /\ EndsWith(u, HtmlQueueExts)

\* IsTargetPlaylistForRequeue without .ashx among the suffixes of lines 150 and 192
IsTargetPlaylistNoAshx(u) == u.valid /\ EndsWith(u, {".m3u", ".pls"})

\* lines 190-197: the try/except around urlparse leaves the flag False when it raises
IsTargetPlaylistForRequeue(u) == u.valid /\ EndsWith(u, RequeueExts)

\* lines 213-216: the name of an entry without metadata
OrphanName(u, src) ==
    IF u.file # "" THEN <<u.file>> ELSE <<"Stream from", src.file>>

MkEntry(name, logo, group, u, src) ==
    [name |-> name, logo |-> logo, group |-> group, url |-> u, source |-> src]

\* CommitPending that lets a later occurrence replace the entry of the URL
CommitPendingOverwrite(st, u) ==
    LET e == MkEntry(st.cur[1].name, st.cur[1].logo, st.cur[1].group, u, st.cur[1].source)
    IN  IF u \notin st.seen
        THEN [st EXCEPT !.seen = @ \cup {u}, !.chans = Append(@, e), !.cur = <<>>]
        ELSE [st EXCEPT !.cur = <<>>, !.dropped = TRUE,
                        !.chans = [i \in 1..Len(@) |-> IF @[i].url = u THEN e ELSE @[i]]]

\* lines 201-208: a stream URL with a pending entry
CommitPending(st, u) ==
    IF u \notin st.seen
    THEN [st EXCEPT !.seen = @ \cup {u},
                    !.chans = Append(@, MkEntry(st.cur[1].name, st.cur[1].logo,
                                                st.cur[1].group, u, st.cur[1].source)),
                    !.cur = <<>>]
    ELSE [st EXCEPT !.cur = <<>>, !.dropped = TRUE]

\* CommitOrphan without the seen_urls test of line 211
CommitOrphanUnchecked(st, u, src) ==
    [st EXCEPT !.seen = @ \cup {u},
               !.chans = Append(@, MkEntry(OrphanName(u, src), default_logo,
                                           "Raw Streams", u, src))]

\* lines 209-221: a stream URL without a pending entry; line 213 parses the URL
\* again outside any try, after line 212 has added it to seen_urls
CommitOrphan(st, u, src) ==
    IF u \notin st.seen
    THEN IF u.valid
         THEN [st EXCEPT !.seen = @ \cup {u},
                         !.chans = Append(@, MkEntry(OrphanName(u, src), default_logo,
                                                     "Raw Streams", u, src))]
         ELSE [st EXCEPT !.seen = @ \cup {u}, !.raised = TRUE]
    ELSE [st EXCEPT !.dropped = TRUE]

\* lines 173-221: one line of the loop
ParseLine(st, line, src) ==
    IF st.raised THEN st
    ELSE IF line.t = "inf" THEN [st EXCEPT !.cur = <<ExtinfInfo(line, src)>>]
    ELSE IF line.t = "url"
         THEN IF IsTargetPlaylistForRequeue(line.u)
              THEN [st EXCEPT !.requeue = Append(@, line.u), !.cur = <<>>,
                              !.discarded = @ \/ st.cur # <<>>]
              ELSE IF st.cur # <<>> THEN CommitPending(st, line.u)
              ELSE CommitOrphan(st, line.u, src)
    ELSE st

RECURSIVE ParseLines(_, _, _)
ParseLines(st, lines, src) ==
    IF lines = <<>> THEN st
    ELSE ParseLines(ParseLine(st, Head(lines), src), Tail(lines), src)

parse_and_store(lines, src, chans, seen) == ParseLines(ParseState(chans, seen), lines, src)

(* -------------------------- parse_pls_content -------------------------- *)
\* lines 127-137: entries[num]['url'] / ['name'], a later line replacing an earlier one
NoPlsEntry == [url |-> <<>>, name |-> <<>>]

PlsGet(entries, n) == IF n \in DOMAIN entries THEN entries[n] ELSE NoPlsEntry

PlsPut(entries, n, e) == [k \in DOMAIN entries \cup {n} |-> IF k = n THEN e ELSE entries[k]]

PlsLine(entries, line) ==
    IF line.t = "file"
    THEN PlsPut(entries, line.n, [PlsGet(entries, line.n) EXCEPT !.url = <<line.u>>])
    ELSE IF line.t = "title"
    THEN PlsPut(entries, line.n, [PlsGet(entries, line.n) EXCEPT !.name = <<line.name>>])
    ELSE entries

RECURSIVE PlsEntries(_, _)
PlsEntries(entries, lines) ==
    IF lines = <<>> THEN entries
    ELSE PlsEntries(PlsLine(entries, Head(lines)), Tail(lines))

\* lines 144-146: Title<N>, or the default when it is missing or blank
PlsName(e, n, src) ==
    IF e.name # <<>> /\ e.name[1] # "" THEN <<e.name[1]>>
    ELSE <<"Stream", ToString(n), "from", src.file>>

\* lines 142-163: one numbered entry
PlsCandidate(st, n, e, src) ==
    IF e.url = <<>> THEN st
    ELSE IF IsTargetPlaylistForRequeue(e.url[1])
    THEN [st EXCEPT !.requeue = Append(@, e.url[1])]
    ELSE IF e.url[1] \notin st.seen
    THEN [st EXCEPT !.seen = @ \cup {e.url[1]},
                    !.chans = Append(@, MkEntry(PlsName(e, n, src), default_logo,
                                                "PLS Streams", e.url[1], src))]
    ELSE [st EXCEPT !.dropped = TRUE]

\* Least that takes the numbers from the largest down
Greatest(S) == CHOOSE n \in S : \A m \in S : n >= m

Least(S) == CHOOSE n \in S : \A m \in S : n <= m

\* line 141: the numbered entries in ascending order of N
RECURSIVE PlsCandidates(_, _, _, _)
PlsCandidates(st, entries, todo, src) ==
    IF todo = {} THEN st
    ELSE PlsCandidates(PlsCandidate(st, Least(todo), entries[Least(todo)], src),
                       entries, todo \ {Least(todo)}, src)

parse_pls_content(lines, src, chans, seen) ==
    LET entries == PlsEntries(<<>>, lines)
    IN  PlsCandidates(ParseState(chans, seen), entries, DOMAIN entries, src)

(* -------------------- extract_stream_urls_from_html -------------------- *)
\* lines 60-63: the link qualifies
Qualifies(u) ==
    \/ EndsWith(u, HtmlQueueExts)
    \/ (u.http /\ EndsWith(u, MediaExts))
    \/ u.kw

\* Accepted without the exclusions of line 64
AcceptedDenied(u) == Qualifies(u) /\ u.http

\* lines 64-65: not excluded, and absolute http(s)
Accepted(u) == Qualifies(u) /\ ~u.deny /\ u.http

\* lines 51-68: the set of accepted links; line 55 parses every href outside any try
extract_stream_urls_from_html(links) ==
    [raised |-> \E u \in links : ~u.valid,
     urls   |-> {u \in links : u.valid /\ Accepted(u)}]

(* ------------------------- what a fetch returns ------------------------ *)
SeqsUpTo(S, n) == UNION {[1..k -> S] : k \in 0..n}

LineUrls == {UM3u, UPls, UHls, UMp3, UBad}
PlsNums == {1, 2}
PlsUrls == {UAshx, UHls, UMp3}
LinkUrls == {UM3u, UPls, UHls, UMp3, ULogin, URtmp, UTgM3u, UBad}
SeedUrls == {UM3u, UPage}

\* the lines a body can hold, as each parser reads them; JunkLine stands for every
\* line the parser passes over
M3uAlphabet == {JunkLine, InfLine("Rock FM", "Music", "")} \cup {UrlLine(u) : u \in LineUrls}
PlsAlphabet == {JunkLine} \cup {FileLine(n, u) : n \in PlsNums, u \in PlsUrls}
                   \cup {TitleLine(n, name) : n \in PlsNums, name \in {"Jazz", ""}}

\* fetch_content, lines 30-45: (None, []) on a RequestException, else the text and
\* its lines.  Of a text that is not empty the loop head reads: first, how it
\* begins ("hdr": its first line is #EXTM3U in any case; "blank-hdr": a blank line,
\* then #EXTM3U; "other"); html, it holds "<html" or "<body".  Its further lines,
\* and the tags BeautifulSoup finds in it, are drawn one by one by the loops that
\* read them.
FetchFailed == [ok |-> FALSE, empty |-> TRUE, first |-> "other", html |-> FALSE]
EmptyBody   == [ok |-> TRUE,  empty |-> TRUE, first |-> "other", html |-> FALSE]
Content(first, html) == [ok |-> TRUE, empty |-> FALSE, first |-> first, html |-> html]
Beginnings == {"hdr", "blank-hdr", "other"}

\* requests refuses a URL it cannot parse (InvalidURL) or whose scheme it has no
\* adapter for (InvalidSchema); both are RequestExceptions
fetch_content(u) ==
    IF u.valid /\ u.http
    THEN {FetchFailed, EmptyBody}
             \cup {Content(f, m) : f \in Beginnings, m \in BOOLEAN}
    ELSE {FetchFailed}

(* --------------------------- process_sources --------------------------- *)
Range(s) == {s[i] : i \in 1..Len(s)}

\* EnqueueAll without the visited test of lines 232, 265 and 284
EnqueueAllUnchecked(q, vis, urls) == [q |-> q \o urls, vis |-> vis \cup Range(urls)]

\* EnqueueAll that puts a new URL at the front of the queue (appendleft)
RECURSIVE EnqueueAllFront(_, _, _)
EnqueueAllFront(q, vis, urls) ==
    IF urls = <<>> THEN [q |-> q, vis |-> vis]
    ELSE IF Head(urls) \notin vis
         THEN EnqueueAllFront(<<Head(urls)>> \o q, vis \cup {Head(urls)}, Tail(urls))
         ELSE EnqueueAllFront(q, vis, Tail(urls))

\* lines 231-234, 262-268, 283-287: append the URLs not yet in the visited set
RECURSIVE EnqueueAll(_, _, _)
EnqueueAll(q, vis, urls) ==
    IF urls = <<>> THEN [q |-> q, vis |-> vis]
    ELSE IF Head(urls) \notin vis
         THEN EnqueueAll(Append(q, Head(urls)), vis \cup {Head(urls)}, Tail(urls))
         ELSE EnqueueAll(q, vis, Tail(urls))

\* content_string is truthy: a response arrived and its text is not empty
ContentString(body) == body.ok /\ ~body.empty

\* NoContent that only tells a failed request, not an empty text
NoContentOnError(body) == ~body.ok

\* line 250: not lines_list and not content_string
NoContent(body) == body.empty /\ ~ContentString(body)

\* lines 256-257
is_html_content(u, body) ==
    EndsWith(u, {".html", ".htm"}) \/ (ContentString(body) /\ body.html)

\* line 272: lines_list[0].strip().upper() == "#EXTM3U"
FirstLineIsHeader(body) == body.first = "hdr"

\* Format with the header test before the page and .pls tests
FormatHeaderFirst(u, body) ==
    IF FirstLineIsHeader(body) THEN "M3U"
    ELSE IF is_html_content(u, body) THEN "HTML"
    ELSE IF EndsWith(u, {".pls"}) THEN "PLS"
    ELSE IF EndsWith(u, {".m3u", ".m3u8", ".ashx"}) THEN "M3U"
    ELSE "Fallback"

\* lines 259-278: the branch taken
Format(u, body) ==
    IF is_html_content(u, body) THEN "HTML"
    ELSE IF EndsWith(u, {".pls"}) THEN "PLS"
    ELSE IF FirstLineIsHeader(body) \/ EndsWith(u, {".m3u", ".m3u8", ".ashx"}) THEN "M3U"
    ELSE "Fallback"

\* list(stream_urls), line 68: a set in some order
Orderings(S) ==
    {s \in [1..Cardinality(S) -> S] : \A i, j \in 1..Cardinality(S) : s[i] = s[j] => i = j}

\* HtmlLinks without the suffix test of line 264
HtmlLinksAll(extracted) == extracted

\* lines 262-264: the links the scheduler takes from the extractor's list
HtmlLinks(extracted) == SelectSeq(extracted, LAMBDA u : EndsWith(u, HtmlQueueExts))

NoCache == [u \in Urls |-> "none"]

\* no URL has been queued
NoDepth == [u \in Urls |-> -1]

\* kind: "none" outside an iteration, "skip", "parsing", "returned", "raised";
\* url: current_url; empty, first, html: what was fetched; fmt: the branch taken;
\* n: the lines (tags) read so far; ref: the URL of the line (tag) read last;
\* cur: current_channel_info; entries: the dict of parse_pls_content;
\* stream_urls: the set of the extractor; requeue: the list the parser returns;
\* dropped: a stream URL was passed over as already seen; discarded: a pending
\* entry was discarded for a nested playlist
NoStep ==
    [kind |-> "none", url |-> <<>>, empty |-> FALSE, first |-> "other", html |-> FALSE,
     fmt |-> "none", n |-> 0, ref |-> <<>>, cur |-> <<>>, entries |-> <<>>,
     stream_urls |-> {}, requeue |-> <<>>, dropped |-> FALSE, discarded |-> FALSE]

\* the lines of the body that its beginning accounts for
LinesOf(first) == IF first = "hdr" THEN 1 ELSE IF first = "blank-hdr" THEN 2 ELSE 0

\* the locals of an iteration that has fetched `body` for `u`
NewStep(kind, u, body, fmt) ==
    [NoStep EXCEPT !.kind = kind, !.url = <<u>>, !.empty = body.empty,
                   !.first = body.first, !.html = body.html, !.fmt = fmt,
                   !.n = LinesOf(body.first)]

\* __init__, lines 18-28
Init ==
    /\ check_links \in BOOLEAN
    /\ channels = <<>>
    /\ seen_urls = {}
    /\ url_status_cache = NoCache
    /\ pc = "idle"
    /\ processing_queue = <<>>
    /\ visited = {}
    /\ fetched = <<>>
    /\ step = NoStep
    /\ futures = <<>>
    /\ active_channels = <<>>
    /\ runs = 0
    /\ depth = NoDepth

\* LoopEnds with a limit of two on the processed URLs
LoopEndsAtCap(q, count) == q = <<>> \/ count >= 2

\* line 238: `while processing_queue:`; count is playlists_processed_count, which
\* line 240 increments and nothing tests
LoopEnds(q, count) == q = <<>>

\* the URLs of `new` were queued at distance d from the seeds
Deepen(dep, new, d) == [u \in Urls |-> IF u \in new THEN d ELSE dep[u]]

\* StartRun that leaves seen_urls as the call before left it
StartRunKeepSeen(seeds, seen) ==
    LET e == EnqueueAll(<<>>, {}, seeds)
    IN  [channels |-> <<>>, seen_urls |-> seen, url_status_cache |-> NoCache,
         q |-> e.q, vis |-> e.vis]

\* lines 227-234: the three stores are cleared, the queue and the visited set are
\* new objects, and the seeds are enqueued
StartRun(seeds, seen) ==
    LET e == EnqueueAll(<<>>, {}, seeds)
    IN  [channels |-> <<>>, seen_urls |-> {}, url_status_cache |-> NoCache,
         q |-> e.q, vis |-> e.vis]

\* lines 226-236: a call of process_sources, up to the loop; the locals of the
\* call before are gone
BeginRun ==
    /\ \E seeds \in SeqsUpTo(SeedUrls, MaxSeeds) :
          LET s == StartRun(seeds, seen_urls)
          IN  /\ channels' = s.channels
              /\ seen_urls' = s.seen_urls
              /\ url_status_cache' = s.url_status_cache
              /\ processing_queue' = s.q
              /\ visited' = s.vis
              /\ depth' = Deepen(NoDepth, s.vis, 0)
    /\ fetched' = <<>>
    /\ step' = NoStep
    /\ futures' = <<>>
    /\ active_channels' = <<>>
    /\ runs' = runs + 1
    /\ pc' = "crawl"
    /\ UNCHANGED check_links

\* main, line 393: the call made on the new collector
ProcessSources ==
    /\ pc = "idle"
    /\ BeginRun

\* a caller that uses the collector again, after a call that returned or raised
Rerun ==
    /\ pc \in {"done", "aborted"}
    /\ runs < MaxRuns
    /\ BeginRun

\* lines 239-251: the popped URL has no content
SkipStep ==
    /\ pc = "crawl"
    /\ ~LoopEnds(processing_queue, Len(fetched))
    /\ \E body \in fetch_content(Head(processing_queue)) :
          /\ NoContent(body)
          /\ step' = NewStep("skip", Head(processing_queue), body, "none")
    /\ fetched' = Append(fetched, Head(processing_queue))
    /\ processing_queue' = Tail(processing_queue)
    /\ UNCHANGED <<check_links, runs, depth, channels, seen_urls, url_status_cache, pc, visited,
                   futures, active_channels>>

\* lines 239-261: an iteration that takes the page branch
HtmlStep ==
    /\ pc = "crawl"
    /\ ~LoopEnds(processing_queue, Len(fetched))
    /\ LET u == Head(processing_queue)
       IN  \E body \in fetch_content(u) :
             /\ ~NoContent(body)
             /\ Format(u, body) = "HTML"
             /\ step' = [NewStep("parsing", u, body, "HTML") EXCEPT !.n = 0]
    /\ pc' = "html"
    /\ fetched' = Append(fetched, Head(processing_queue))
    /\ processing_queue' = Tail(processing_queue)
    /\ UNCHANGED <<check_links, runs, depth, channels, seen_urls, url_status_cache, visited, futures,
                   active_channels>>

\* lines 51-66: extract_stream_urls_from_html reads the next tag with a link
HtmlTag ==
    /\ pc = "html"
    /\ step.n < MaxLinks
    /\ \E u \in LinkUrls :
          LET x == extract_stream_urls_from_html({u})
          IN  /\ step' = [step EXCEPT !.n = @ + 1,
                                      !.ref = <<u>>,
                                      !.stream_urls = @ \cup x.urls,
                                      !.kind = IF x.raised THEN "raised" ELSE @]
              /\ pc' = IF x.raised THEN "aborted" ELSE pc
    /\ UNCHANGED <<check_links, runs, depth, channels, seen_urls, url_status_cache, processing_queue,
                   visited, fetched, futures, active_channels>>

\* lines 67-68 and 262-268: the extractor returns its set as a list and the
\* scheduler enqueues the playlist links of it
HtmlReturn ==
    /\ pc = "html"
    /\ \E extracted \in Orderings(step.stream_urls) :
          LET e == EnqueueAll(processing_queue, visited, HtmlLinks(extracted))
          IN  /\ processing_queue' = e.q
              /\ visited' = e.vis
              /\ depth' = Deepen(depth, e.vis \ visited, depth[step.url[1]] + 1)
              /\ step' = [step EXCEPT !.kind = "returned", !.requeue = HtmlLinks(extracted)]
    /\ pc' = "crawl"
    /\ UNCHANGED <<check_links, runs, channels, seen_urls, url_status_cache, fetched, futures,
                   active_channels>>

\* lines 239-257 and 269-278: an iteration that calls a playlist parser
PlaylistStep ==
    /\ pc = "crawl"
    /\ ~LoopEnds(processing_queue, Len(fetched))
    /\ LET u == Head(processing_queue)
       IN  \E body \in fetch_content(u) :
             /\ ~NoContent(body)
             /\ Format(u, body) # "HTML"
             /\ pc' = IF Format(u, body) = "PLS" THEN "pls" ELSE "parse"
             /\ step' = NewStep("parsing", u, body, Format(u, body))
    /\ fetched' = Append(fetched, Head(processing_queue))
    /\ processing_queue' = Tail(processing_queue)
    /\ UNCHANGED <<check_links, runs, depth, channels, seen_urls, url_status_cache, visited, futures,
                   active_channels>>

\* lines 172-221: parse_and_store reads the next line of the body
M3uLine ==
    /\ pc = "parse"
    /\ step.n < MaxLines
    /\ \E line \in M3uAlphabet :
          LET r == ParseLine([cur |-> step.cur, chans |-> channels, seen |-> seen_urls,
                              requeue |-> step.requeue, dropped |-> step.dropped,
                              raised |-> FALSE, discarded |-> step.discarded],
                             line, step.url[1])
          IN  /\ channels' = r.chans
              /\ seen_urls' = r.seen
              /\ step' = [step EXCEPT !.cur = r.cur, !.requeue = r.requeue,
                                      !.dropped = r.dropped, !.n = @ + 1,
                                      !.discarded = r.discarded,
                                      !.ref = IF line.t = "url" THEN <<line.u>> ELSE <<>>,
                                      !.kind = IF r.raised THEN "raised" ELSE @]
              /\ pc' = IF r.raised THEN "aborted" ELSE pc
    /\ UNCHANGED <<check_links, runs, depth, url_status_cache, processing_queue, visited, fetched,
                   futures, active_channels>>

\* lines 222-224 and 283-287: parse_and_store returns and its list is enqueued
M3uReturn ==
    /\ pc = "parse"
    /\ step.n >= 1
    /\ LET e == EnqueueAll(processing_queue, visited, step.requeue)
       IN  /\ processing_queue' = e.q
           /\ visited' = e.vis
           /\ depth' = Deepen(depth, e.vis \ visited, depth[step.url[1]] + 1)
    /\ step' = [step EXCEPT !.kind = "returned", !.cur = <<>>]
    /\ pc' = "crawl"
    /\ UNCHANGED <<check_links, runs, channels, seen_urls, url_status_cache, fetched, futures,
                   active_channels>>

\* lines 127-137: parse_pls_content reads the next line of the body
PlsReadLine ==
    /\ pc = "pls"
    /\ step.n < MaxLines
    /\ \E line \in PlsAlphabet :
          step' = [step EXCEPT !.entries = PlsLine(@, line), !.n = @ + 1,
                               !.ref = IF line.t = "file" THEN <<line.u>> ELSE <<>>]
    /\ UNCHANGED <<check_links, runs, depth, channels, seen_urls, url_status_cache, pc,
                   processing_queue, visited, fetched, futures, active_channels>>

\* lines 138-166 and 283-287: the numbered entries are handled, parse_pls_content
\* returns and its list is enqueued
PlsReturn ==
    /\ pc = "pls"
    /\ step.n >= 1
    /\ LET r == PlsCandidates(ParseState(channels, seen_urls), step.entries,
                              DOMAIN step.entries, step.url[1])
           e == EnqueueAll(processing_queue, visited, r.requeue)
       IN  /\ channels' = r.chans
           /\ seen_urls' = r.seen
           /\ processing_queue' = e.q
           /\ visited' = e.vis
           /\ depth' = Deepen(depth, e.vis \ visited, depth[step.url[1]] + 1)
           /\ step' = [step EXCEPT !.kind = "returned", !.requeue = r.requeue,
                                   !.dropped = r.dropped]
    /\ pc' = "crawl"
    /\ UNCHANGED <<check_links, runs, url_status_cache, fetched, futures, active_channels>>

(* ----------------------- filter_active_channels ------------------------ *)
\* lines 297-300: the keys of urls_to_check_map, in order of first occurrence
RECURSIVE UniqueUrls(_, _)
UniqueUrls(chans, acc) ==
    IF chans = <<>> THEN acc
    ELSE IF \E i \in 1..Len(acc) : acc[i] = Head(chans).url
         THEN UniqueUrls(Tail(chans), acc)
         ELSE UniqueUrls(Tail(chans), Append(acc, Head(chans).url))

\* a submitted check_link_active(url) call: where it stands, how its probes ended
\* ("none": not issued), what it returned, whether that came from the cache, and
\* whether filter_active_channels has taken its result
Submit(u) ==
    [url |-> u, st |-> "submitted", head |-> "none", get |-> "none",
     live |-> FALSE, cached |-> FALSE, merged |-> FALSE]

\* lines 312-313
SubmitAll(urls) == [i \in 1..Len(urls) |-> Submit(urls[i])]

\* ShouldValidate without the check_links test of line 294
ShouldValidateAlways(chans, check) == chans # <<>> /\ UniqueUrls(chans, <<>>) # <<>>

\* lines 290, 294 and 303: the probes are submitted
ShouldValidate(chans, check) == chans # <<>> /\ check /\ UniqueUrls(chans, <<>>) # <<>>

\* lines 289-291 and 293-313: the loop is over; filter_active_channels starts
CrawlEnd ==
    /\ pc = "crawl"
    /\ LoopEnds(processing_queue, Len(fetched))
    /\ IF ShouldValidate(channels, check_links)
       THEN /\ futures' = SubmitAll(UniqueUrls(channels, <<>>))
            /\ pc' = "validate"
       ELSE /\ futures' = <<>>
            /\ pc' = "done"
    /\ active_channels' = <<>>
    /\ step' = NoStep
    /\ UNCHANGED <<check_links, runs, depth, channels, seen_urls, url_status_cache, processing_queue,
                   visited, fetched>>

(* -------------------------- check_link_active -------------------------- *)
\* what requests.head / requests.get can do: a status below 400, a status of 400
\* or more, a Timeout, another RequestException, or an exception that is no
\* RequestException
Responses == {"ok", "status", "timeout", "error", "raise"}
ProbeResponses(u) == IF u.valid /\ u.http THEN Responses ELSE {"error"}

\* how the code tells them apart: the status test passes, the call falls through
\* to the next probe, or the exception leaves check_link_active
Outcome(r) == IF r = "ok" THEN "ok" ELSE IF r = "raise" THEN "raise" ELSE "fail"

Running == pc \in {"validate", "calls"}

StatusOf(live) == IF live THEN "live" ELSE "dead"

\* LookedUp that takes a negative result cached for any URL as its own
LookedUpAny(f, cache) ==
    IF \E u \in Urls : cache[u] = "dead"
    THEN [f EXCEPT !.st = "done", !.cached = TRUE, !.live = FALSE]
    ELSE [f EXCEPT !.st = "head"]

\* lines 97-98: the cache lookup under the lock
LookedUp(f, cache) ==
    IF cache[f.url] # "none"
    THEN [f EXCEPT !.st = "done", !.cached = TRUE, !.live = (cache[f.url] = "live")]
    ELSE [f EXCEPT !.st = "head"]

CacheLookup(i) ==
    /\ Running
    /\ futures[i].st = "submitted"
    /\ futures' = [futures EXCEPT ![i] = LookedUp(@, url_status_cache)]
    /\ UNCHANGED <<check_links, runs, depth, channels, seen_urls, url_status_cache, pc,
                   processing_queue, visited, fetched, step, active_channels>>

\* AfterHead without the fall-back to GET: a HEAD that fails ends the check
AfterHeadNoFallback(f, r) ==
    IF Outcome(r) = "ok" THEN [f EXCEPT !.head = "ok", !.st = "done", !.live = TRUE]
    ELSE IF Outcome(r) = "raise" THEN [f EXCEPT !.head = "raise", !.st = "failed"]
    ELSE [f EXCEPT !.head = "fail", !.st = "done", !.live = FALSE]

\* lines 99-108: the HEAD probe
AfterHead(f, r) ==
    IF Outcome(r) = "ok" THEN [f EXCEPT !.head = "ok", !.st = "done", !.live = TRUE]
    ELSE IF Outcome(r) = "raise" THEN [f EXCEPT !.head = "raise", !.st = "failed"]
    ELSE [f EXCEPT !.head = "fail", !.st = "get"]

HeadProbe(i) ==
    /\ Running
    /\ futures[i].st = "head"
    /\ \E r \in ProbeResponses(futures[i].url) :
          /\ futures' = [futures EXCEPT ![i] = AfterHead(@, r)]
          /\ url_status_cache' =
                IF Outcome(r) = "ok"
                THEN [url_status_cache EXCEPT ![futures[i].url] = "live"]
                ELSE url_status_cache
    /\ UNCHANGED <<check_links, runs, depth, channels, seen_urls, pc, processing_queue, visited,
                   fetched, step, active_channels>>

\* lines 109-120: the GET probe and the negative result
AfterGet(f, r) ==
    IF Outcome(r) = "raise" THEN [f EXCEPT !.get = "raise", !.st = "failed"]
    ELSE [f EXCEPT !.get = Outcome(r), !.st = "done", !.live = (Outcome(r) = "ok")]

GetProbe(i) ==
    /\ Running
    /\ futures[i].st = "get"
    /\ \E r \in ProbeResponses(futures[i].url) :
          /\ futures' = [futures EXCEPT ![i] = AfterGet(@, r)]
          /\ url_status_cache' =
                IF Outcome(r) = "raise" THEN url_status_cache
                ELSE [url_status_cache EXCEPT
                         ![futures[i].url] = StatusOf(Outcome(r) = "ok")]
    /\ UNCHANGED <<check_links, runs, depth, channels, seen_urls, pc, processing_queue, visited,
                   fetched, step, active_channels>>

\* lines 330-332: the copies of the entries of one URL
RECURSIVE ActiveCopies(_, _)
ActiveCopies(chans, u) ==
    IF chans = <<>> THEN <<>>
    ELSE IF Head(chans).url = u
         THEN <<[Head(chans) EXCEPT !.url = u]>> \o ActiveCopies(Tail(chans), u)
         ELSE ActiveCopies(Tail(chans), u)

\* Merged without the is_active test of line 329
MergedAlways(active, f, chans) ==
    IF f.st = "done" THEN active \o ActiveCopies(chans, f.url) ELSE active

\* lines 326-333: what one finished future adds to active_channels
Merged(active, f, chans) ==
    IF f.st = "done" /\ f.live THEN active \o ActiveCopies(chans, f.url) ELSE active

\* lines 321-333: as_completed hands over one finished future
Merge(i) ==
    /\ pc = "validate"
    /\ futures[i].st \in {"done", "failed"}
    /\ ~futures[i].merged
    /\ futures' = [futures EXCEPT ![i].merged = TRUE]
    /\ active_channels' = Merged(active_channels, futures[i], channels)
    /\ UNCHANGED <<check_links, runs, depth, channels, seen_urls, url_status_cache, pc,
                   processing_queue, visited, fetched, step>>

\* AllCompleted that is content with one finished future
AnyCompleted(fs) == \E i \in 1..Len(fs) : fs[i].merged

\* lines 311-333: the as_completed loop has handed over every future, and the
\* `with` block has joined the workers
AllCompleted(fs) == \A i \in 1..Len(fs) : fs[i].merged

\* line 335: the store is replaced
FilterFinish ==
    /\ pc = "validate"
    /\ AllCompleted(futures)
    /\ channels' = active_channels
    /\ pc' = "done"
    /\ UNCHANGED <<check_links, runs, depth, seen_urls, url_status_cache, processing_queue, visited,
                   fetched, step, futures, active_channels>>

Next ==
    \/ ProcessSources
    \/ SkipStep
    \/ HtmlStep
    \/ HtmlTag
    \/ HtmlReturn
    \/ PlaylistStep
    \/ M3uLine
    \/ M3uReturn
    \/ PlsReadLine
    \/ PlsReturn
    \/ CrawlEnd
    \/ \E i \in 1..Len(futures) : CacheLookup(i)
    \/ \E i \in 1..Len(futures) : HeadProbe(i)
    \/ \E i \in 1..Len(futures) : GetProbe(i)
    \/ \E i \in 1..Len(futures) : Merge(i)
    \/ FilterFinish

Spec == Init /\ [][Next]_vars

(* ------------- process_sources called again on the collector ---------- *)
RerunNext == Next \/ Rerun

RerunSpec == Init /\ [][RerunNext]_vars

(* ----------- check_link_active called from concurrent threads ---------- *)
CallUrls == {UHls, UMp3}

\* a collector after construction, and MaxCalls or fewer threads that each call
\* check_link_active once, on URLs that may be the same
CallInit ==
    /\ check_links \in BOOLEAN
    /\ channels = <<>>
    /\ seen_urls = {}
    /\ url_status_cache = NoCache
    /\ pc = "calls"
    /\ processing_queue = <<>>
    /\ visited = {}
    /\ fetched = <<>>
    /\ step = NoStep
    /\ futures \in {SubmitAll(us) : us \in SeqsUpTo(CallUrls, MaxCalls)}
    /\ active_channels = <<>>
    /\ runs = 0
    /\ depth = NoDepth

CallNext ==
    \/ \E i \in 1..Len(futures) : CacheLookup(i)
    \/ \E i \in 1..Len(futures) : HeadProbe(i)
    \/ \E i \in 1..Len(futures) : GetProbe(i)

CallSpec == CallInit /\ [][CallNext]_vars

(* ------ check_link_active, each `with self.lock` block a step of its own ----- *)
\* a call is inside one of the `with self.lock` blocks: "lookup" lines 97-98,
\* "store" line 102, 113 or 119 ("wait": it has its result and is at the `with`)
Holding(f) == f.st \in {"lookup", "store"}

\* LockFree that lets a thread in while another is inside
LockFreeAlways(fs) == TRUE

\* line 25, threading.Lock: acquired by `with`, released when the block is left
LockFree(fs) == \A i \in 1..Len(fs) : ~Holding(fs[i])

\* the result of a probe step, to be stored under the lock
ToStore(f) == IF f.st = "done" THEN [f EXCEPT !.st = "wait"] ELSE f

\* lines 97, 102, 113, 119: `with self.lock:` is entered
LockAcquire(i) ==
    /\ pc = "locks"
    /\ futures[i].st \in {"submitted", "wait"}
    /\ LockFree(futures)
    /\ futures' = [futures EXCEPT ![i].st = IF @ = "submitted" THEN "lookup" ELSE "store"]
    /\ UNCHANGED <<check_links, runs, depth, channels, seen_urls, url_status_cache, pc,
                   processing_queue, visited, fetched, step, active_channels>>

\* line 98: the lookup, and the block is left
LockedLookup(i) ==
    /\ pc = "locks"
    /\ futures[i].st = "lookup"
    /\ futures' = [futures EXCEPT ![i] = LookedUp(@, url_status_cache)]
    /\ UNCHANGED <<check_links, runs, depth, channels, seen_urls, url_status_cache, pc,
                   processing_queue, visited, fetched, step, active_channels>>

\* lines 99-101 and 104-108: requests.head and its status test
UnlockedHead(i) ==
    /\ pc = "locks"
    /\ futures[i].st = "head"
    /\ \E r \in ProbeResponses(futures[i].url) :
          futures' = [futures EXCEPT ![i] = ToStore(AfterHead(@, r))]
    /\ UNCHANGED <<check_links, runs, depth, channels, seen_urls, url_status_cache, pc,
                   processing_queue, visited, fetched, step, active_channels>>

\* lines 109-112 and 115-118: requests.get and its status test
UnlockedGet(i) ==
    /\ pc = "locks"
    /\ futures[i].st = "get"
    /\ \E r \in ProbeResponses(futures[i].url) :
          futures' = [futures EXCEPT ![i] = ToStore(AfterGet(@, r))]
    /\ UNCHANGED <<check_links, runs, depth, channels, seen_urls, url_status_cache, pc,
                   processing_queue, visited, fetched, step, active_channels>>

\* lines 102-103, 113-114, 119-120: the result is stored, the block is left and
\* the call returns
LockedStore(i) ==
    /\ pc = "locks"
    /\ futures[i].st = "store"
    /\ url_status_cache' = [url_status_cache EXCEPT ![futures[i].url] = StatusOf(futures[i].live)]
    /\ futures' = [futures EXCEPT ![i].st = "done"]
    /\ UNCHANGED <<check_links, runs, depth, channels, seen_urls, pc, processing_queue,
                   visited, fetched, step, active_channels>>

\* worker threads of the executor, each in one check_link_active call
LockInit ==
    /\ check_links \in BOOLEAN
    /\ channels = <<>>
    /\ seen_urls = {}
    /\ url_status_cache = NoCache
    /\ pc = "locks"
    /\ processing_queue = <<>>
    /\ visited = {}
    /\ fetched = <<>>
    /\ step = NoStep
    /\ futures \in {SubmitAll(us) : us \in SeqsUpTo(CallUrls, MaxCalls)}
    /\ active_channels = <<>>
    /\ runs = 0
    /\ depth = NoDepth

LockNext ==
    \/ \E i \in 1..Len(futures) : LockAcquire(i)
    \/ \E i \in 1..Len(futures) : LockedLookup(i)
    \/ \E i \in 1..Len(futures) : UnlockedHead(i)
    \/ \E i \in 1..Len(futures) : UnlockedGet(i)
    \/ \E i \in 1..Len(futures) : LockedStore(i)

LockSpec == LockInit /\ [][LockNext]_vars

(* ------------------------------ properties ----------------------------- *)
StreamUrls(chans) == {chans[i].url : i \in 1..Len(chans)}
NoRepeat(s) == \A i, j \in 1..Len(s) : s[i] = s[j] => i = j

\* C1: in every reachable state, during the crawl and after validation, no two
\* entries of self.channels have the same url.
UniqueStreamUrls == \A i, j \in 1..Len(channels) : channels[i].url = channels[j].url => i = j

\* a parser met a stream URL that was committed before and passed over it
DuplicateDropped == step.dropped /\ channels # <<>>

\* C2: within one process_sources call no URL is handed to fetch_content twice,
\* and no URL is in the queue twice or again after it was fetched.
NoRevisit ==
    /\ NoRepeat(fetched)
    /\ NoRepeat(processing_queue)
    /\ Range(processing_queue) \cap Range(fetched) = {}

\* a playlist that refers to itself was parsed and is not queued again
CycleNotRefetched ==
    /\ step.kind = "returned"
    /\ step.url[1] \in Range(step.requeue)
    /\ step.url[1] \notin Range(processing_queue)
    /\ NoRepeat(fetched)

PageUrl(u) == EndsWith(u, {".html", ".htm"})

\* C3, as claimed: from M3U, PLS and HTML alike, a reference whose path ends in
\* .m3u, .pls or .ashx is never committed and is handed to the crawl queue, and a
\* reference whose path ends in .m3u8 is never appended to the crawl queue.
SuffixDecidesEverywhere ==
    /\ \A u \in StreamUrls(channels) : u.valid => ~EndsWith(u, RequeueExts)
    /\ (step.kind = "returned" /\ step.ref # <<>> /\ step.ref[1].valid
            /\ EndsWith(step.ref[1], RequeueExts)) => step.ref[1] \in visited
    /\ \A u \in Range(processing_queue) : ~EndsWith(u, {".m3u8"})

\* C3, amended: a reference read by the M3U or the PLS parser whose path ends in
\* .m3u, .pls or .ashx is put on the re-queue list, which is enqueued when the
\* parser returns, and is never committed; one whose path ends in .m3u8 is never
\* put on that list, the M3U parser marking it seen instead.  A link of an HTML
\* page is enqueued exactly when the extractor accepts it and its path ends in
\* .m3u, .m3u8, .pls or .ashx.
SuffixDecidesInParsers ==
    /\ \A u \in StreamUrls(channels) : u.valid => ~EndsWith(u, RequeueExts)
    /\ step.fmt \in {"M3U", "Fallback"} /\ step.ref # <<>> /\ step.kind # "raised" =>
          /\ IsTargetPlaylistForRequeue(step.ref[1]) =>
                step.ref[1] \in Range(step.requeue)
          /\ EndsWith(step.ref[1], {".m3u8"}) =>
                step.ref[1] \in seen_urls /\ step.ref[1] \notin Range(step.requeue)
    /\ step.fmt = "PLS" /\ step.kind = "returned" =>
          \A n \in DOMAIN step.entries :
             \A u \in Range(step.entries[n].url) :
                /\ u.valid /\ EndsWith(u, RequeueExts) => u \in Range(step.requeue)
                /\ EndsWith(u, {".m3u8"}) => u \in seen_urls /\ u \notin Range(step.requeue)
    /\ step.fmt # "HTML" /\ step.kind = "returned" => Range(step.requeue) \subseteq visited
    /\ step.fmt = "HTML" /\ step.kind = "returned" =>
          /\ Range(step.requeue) \subseteq visited
          /\ \A u \in LinkUrls :
                u \in Range(step.requeue) <=>
                   u \in step.stream_urls /\ EndsWith(u, {".m3u", ".m3u8", ".pls", ".ashx"})
          /\ step.ref # <<>> =>
                (step.ref[1] \in step.stream_urls <=>
                    step.ref[1].valid /\ ~step.ref[1].deny /\ step.ref[1].http
                       /\ (step.ref[1].kw \/ step.ref[1].ext \in HtmlQueueExts \cup MediaExts))

\* an HTML page linked a .m3u8 URL and the scheduler has queued it
M3u8QueuedFromHtml ==
    /\ step.kind = "returned"
    /\ step.fmt = "HTML"
    /\ UHls \in Range(step.requeue)
    /\ UHls \in Range(processing_queue)

\* C4: when validation runs, the store it leaves holds exactly the entries of the
\* store before it whose url has a live result in the cache, each unchanged.
ValidationKeepsLiveEntries ==
    [][(pc = "validate" /\ pc' = "done") =>
          /\ \A e \in Range(channels') :
                url_status_cache[e.url] = "live" /\ e \in Range(channels)
          /\ \A e \in Range(channels) :
                url_status_cache[e.url] = "live" => e \in Range(channels')
          /\ Len(channels') =
                Cardinality({i \in 1..Len(channels) :
                                url_status_cache[channels[i].url] = "live"})]_vars

\* validation has removed an entry and kept another
SomeKeptSomeRemoved ==
    /\ pc = "done"
    /\ check_links
    /\ channels # <<>>
    /\ \E u \in Urls : url_status_cache[u] = "dead"

\* C5: with check_links false no probe is submitted and the cache stays empty, and
\* the end of the crawl leaves the store as it is.
SkippedValidationIsNoOp ==
    [][~check_links =>
          /\ url_status_cache' = NoCache
          /\ futures' = <<>>
          /\ (pc = "crawl" /\ processing_queue = <<>>) =>
                (channels' = channels /\ pc' = "done")
          /\ pc = "done" => channels' = channels]_vars

\* a run without validation ended with entries in the store
DoneUnvalidated == pc = "done" /\ ~check_links /\ channels # <<>>

LiveFrom(head, get) == head = "ok" \/ (head = "fail" /\ get = "ok")

\* C7: the result of every check, the cache entry of its URL and the presence of
\* its entries in the filtered store are a function of the outcomes of its own
\* probes; no check takes a result from the cache; and the pass is never aborted
\* and can always go on.
ValidatorIndependence ==
    /\ futures # <<>> => pc \in {"validate", "done"}
    /\ pc = "validate" => ENABLED Next
    /\ \A i \in 1..Len(futures) :
          LET f == futures[i]
              live == f.st = "done" /\ LiveFrom(f.head, f.get)
          IN  /\ f.st = "done" =>
                    /\ ~f.cached
                    /\ f.live = LiveFrom(f.head, f.get)
                    /\ url_status_cache[f.url] = StatusOf(f.live)
              /\ (pc = "validate" /\ f.merged) =>
                    (f.url \in StreamUrls(active_channels) <=> live)
              /\ (pc = "validate" /\ ~f.merged) => f.url \notin StreamUrls(active_channels)
              /\ pc = "done" => (f.url \in StreamUrls(channels) <=> live)

\* the pass ended: one URL is kept although the check of another raised
KeptBesideFailure ==
    /\ pc = "done"
    /\ \E i, j \in 1..Len(futures) :
          /\ futures[i].st = "failed"
          /\ futures[j].live
          /\ futures[j].url \in StreamUrls(channels)

\* C8: a run always completes: process_sources never stops anywhere but at its end.
RunCompletes == pc = "done" \/ ENABLED Next

\* C9: an iteration whose fetch gave no content is a skip: store, seen_urls and
\* visited set stay as they are, nothing is enqueued, and the loop goes on.
FailedFetchIsSkipped ==
    [][(fetched' # fetched /\ step'.empty) =>
          /\ step'.kind = "skip"
          /\ channels' = channels
          /\ seen_urls' = seen_urls
          /\ visited' = visited
          /\ processing_queue' = Tail(processing_queue)
          /\ pc' = "crawl"]_vars

\* a fetch failed in the middle of a crawl
SkipMidCrawl ==
    /\ pc = "crawl"
    /\ step.kind = "skip"
    /\ channels # <<>>
    /\ processing_queue # <<>>

\* section 4.2 of the design: the header first, then page, PLS, M3U family
DesignFormat(u, first, html) ==
    IF first \in {"hdr", "blank-hdr"} THEN "M3U"
    ELSE IF PageUrl(u) \/ html THEN "HTML"
    ELSE IF EndsWith(u, {".pls"}) THEN "PLS"
    ELSE IF EndsWith(u, {".m3u", ".m3u8", ".ashx"}) THEN "M3U"
    ELSE "Fallback"

ParserOf(fmt) == IF fmt = "HTML" THEN "html" ELSE IF fmt = "PLS" THEN "pls" ELSE "parse"

\* C10, as claimed: the branch follows the order of section 4.2, the header of the
\* first non-blank line deciding before the URL suffix and the page marker.
HeaderDecidesFirst ==
    step.kind = "parsing" =>
       /\ step.fmt = DesignFormat(step.url[1], step.first, step.html)
       /\ pc = ParserOf(step.fmt)

\* C10, amended: (1) a URL that ends in .html/.htm or a text with "<html"/"<body"
\* goes to the link extractor; (2) else a path that ends in .pls goes to the PLS
\* parser; (3) else a first line that is #EXTM3U, or a path that ends in .m3u,
\* .m3u8 or .ashx, goes to the M3U parser; (4) else the M3U parser, as fallback.
DispatchOrder ==
    step.kind = "parsing" =>
       LET u == step.url[1]
           page == PageUrl(u) \/ step.html
           pls == EndsWith(u, {".pls"})
           m3u == step.first = "hdr" \/ EndsWith(u, {".m3u", ".m3u8", ".ashx"})
       IN  /\ pc = "html" <=> page
           /\ pc = "pls" <=> ~page /\ pls
           /\ pc = "parse" <=> ~page /\ ~pls
           /\ step.fmt = "HTML" <=> page
           /\ step.fmt = "PLS" <=> ~page /\ pls
           /\ step.fmt = "M3U" <=> ~page /\ ~pls /\ m3u
           /\ step.fmt = "Fallback" <=> ~page /\ ~pls /\ ~m3u

\* a text that begins with #EXTM3U, fetched from a .pls URL, is in the PLS parser
HeaderUnderPls == pc = "pls" /\ step.first = "hdr"

IsPrefix(s, t) == Len(s) <= Len(t) /\ \A i \in 1..Len(s) : s[i] = t[i]

CrawlPcs == {"crawl", "parse", "pls", "html"}

\* C11: during the crawl the store only grows at its end, every entry staying as
\* it was committed, and an entry is only added for a URL that has none yet: a
\* later occurrence of a committed URL leaves the store as it is.
FirstCommitWins ==
    [][(pc \in CrawlPcs) =>
          /\ IsPrefix(channels, channels')
          /\ \A i \in (Len(channels) + 1)..Len(channels') :
                channels'[i].url \notin StreamUrls(channels)
          /\ (pc # "pls" => Len(channels') <= Len(channels) + 1)]_vars

\* a playlist has met a stream URL that an earlier playlist committed, and the
\* entry still names the earlier playlist as its source
FirstCommitKept ==
    /\ step.dropped
    /\ step.ref # <<>>
    /\ \E e \in Range(channels) : e.url = step.ref[1] /\ e.source # step.url[1]

PlaylistFamily(u) == u.valid /\ u.ext \in {".m3u", ".pls", ".ashx"}

\* C12: no entry of the store, and no URL of seen_urls, has a path that ends in
\* .m3u, .pls or .ashx; the M3U parser, having read such a line, has it on its
\* re-queue list and holds no pending entry; the PLS parser returns every such
\* File<N> value on its re-queue list.
NoPlaylistEntries ==
    /\ \A e \in Range(channels) \cup Range(active_channels) : ~PlaylistFamily(e.url)
    /\ \A u \in seen_urls : ~PlaylistFamily(u)
    /\ (pc = "parse" /\ step.ref # <<>> /\ PlaylistFamily(step.ref[1])) =>
          /\ step.cur = <<>>
          /\ step.ref[1] \in Range(step.requeue)
    /\ (step.fmt = "PLS" /\ step.kind = "returned") =>
          \A n \in DOMAIN step.entries :
             \A u \in Range(step.entries[n].url) :
                PlaylistFamily(u) => u \in Range(step.requeue)

\* an #EXTINF line was followed by a nested playlist: the pending entry is gone,
\* nothing was committed and the playlist is queued
PendingDiscarded ==
    /\ step.kind = "returned"
    /\ step.discarded
    /\ channels = <<>>
    /\ Range(step.requeue) \subseteq visited

\* C13: the processing of a page leaves the store and seen_urls as they are; what
\* it appends to the queue are links that qualify, hold no excluded substring, are
\* absolute http(s) and were not visited, and it adds exactly these to visited.
HtmlOnlyEnqueues ==
    [][(pc = "html" \/ pc' = "html") =>
          /\ channels' = channels
          /\ seen_urls' = seen_urls
          /\ pc = "html" =>
                /\ IsPrefix(processing_queue, processing_queue')
                /\ visited' = visited \cup Range(processing_queue')
                /\ \A u \in Range(processing_queue') \ Range(processing_queue) :
                      /\ u \notin visited
                      /\ u.valid /\ u.http /\ ~u.deny
                      /\ u.kw \/ u.ext \in HtmlQueueExts \cup MediaExts]_vars

\* a page that links an excluded .m3u URL was processed beside a store that holds
\* entries: the link is not queued
DeniedLinkNotQueued ==
    /\ step.kind = "returned"
    /\ step.fmt = "HTML"
    /\ step.ref = <<UTgM3u>>
    /\ UTgM3u \notin visited
    /\ channels # <<>>

\* the values of a crawl cap
CapValues == 1..2

\* C14, as claimed: with the cap set to a number, the URLs popped and processed in
\* one run are never more than the cap.
CrawlCapRespected == \A cap \in CapValues : Len(fetched) <= cap

\* C14, amended: nothing caps the crawl: the loop is left only with an empty
\* queue, and then every URL that was ever enqueued has been popped and fetched.
CrawlEndsOnEmptyQueue ==
    pc \in {"validate", "done"} =>
       /\ processing_queue = <<>>
       /\ Range(fetched) = visited
       /\ Len(fetched) = Cardinality(visited)

\* a run has ended after it processed more URLs than any of the caps
LongCrawlDone == pc = "done" /\ \A cap \in CapValues : Len(fetched) > cap

\* C15: every process_sources call, the first and the later ones alike, starts with
\* an empty store, seen_urls and cache, and with a queue and a visited set that
\* hold the distinct seeds and nothing else, whatever the calls before have left.
FreshRun ==
    [][runs' # runs =>
          /\ channels' = <<>>
          /\ seen_urls' = {}
          /\ url_status_cache' = NoCache
          /\ fetched' = <<>>
          /\ futures' = <<>>
          /\ step' = NoStep
          /\ NoRepeat(processing_queue')
          /\ Range(processing_queue') \subseteq SeedUrls
          /\ visited' = Range(processing_queue')
          /\ depth' = Deepen(NoDepth, visited', 0)
          /\ pc' = "crawl"]_vars

\* a second call on the collector has run to its end, validation included
SecondRunDone ==
    /\ runs = 2
    /\ pc = "done"
    /\ channels # <<>>
    /\ url_status_cache # NoCache

\* C16, as claimed: after a page was processed, every URL the extractor returned
\* is in the visited set (it was there before, or it was enqueued now).
ExtractedAllEnqueued ==
    (step.fmt = "HTML" /\ step.kind = "returned") => step.stream_urls \subseteq visited

\* C16, amended: of the URLs the extractor returned, the scheduler appends to the
\* queue, and adds to visited, exactly those whose path ends in .m3u, .m3u8, .pls
\* or .ashx and that were not visited; the others it passes over.
HtmlEnqueuesPlaylistLinks ==
    [][(pc = "html" /\ pc' = "crawl") =>
          LET pl == {u \in step.stream_urls : u.ext \in {".m3u", ".m3u8", ".pls", ".ashx"}}
          IN  /\ visited' = visited \cup pl
              /\ IsPrefix(processing_queue, processing_queue')
              /\ Range(processing_queue') = Range(processing_queue) \cup (pl \ visited)
              /\ Len(processing_queue') = Len(processing_queue) + Cardinality(pl \ visited)]_vars

\* the extractor returned a .mp3 link and the scheduler has not queued it
MediaLinkNotQueued ==
    /\ step.kind = "returned"
    /\ step.fmt = "HTML"
    /\ UMp3 \in step.stream_urls
    /\ UMp3 \notin visited

\* C17: while the crawl runs no check has left the submitted state and the cache
\* is not written; validation starts from the crawl loop with an empty queue;
\* while validation runs nothing is fetched, parsed or enqueued and the store is
\* not written, until the step that replaces it, which finds every submitted
\* check finished and handed over.
PhasesDoNotOverlap ==
    [][/\ (pc \in CrawlPcs) =>
             /\ url_status_cache' = url_status_cache
             /\ \A i \in 1..Len(futures') : futures'[i].st = "submitted"
       /\ (pc # "validate" /\ pc' = "validate") =>
             /\ pc = "crawl"
             /\ processing_queue = <<>>
             /\ channels' = channels
       /\ (pc = "validate") =>
             /\ fetched' = fetched
             /\ processing_queue' = processing_queue
             /\ visited' = visited
             /\ seen_urls' = seen_urls
             /\ step' = step
             /\ pc' \in {"validate", "done"}
             /\ (pc' = "validate") => channels' = channels
             /\ (pc' = "done") =>
                   \A i \in 1..Len(futures) :
                      futures[i].st \in {"done", "failed"} /\ futures[i].merged]_vars

\* the checks of a crawl that fetched several URLs have all finished and the
\* store is about to be replaced
BarrierReached ==
    /\ pc = "validate"
    /\ Len(fetched) >= 2
    /\ Len(futures) >= 2
    /\ \A i \in 1..Len(futures) : futures[i].merged

\* C18: at most one call is inside a `with self.lock` block; the cache is written
\* only by the call that is inside the block of lines 102/113/119, and only at
\* the key of its URL; a cached result is taken only inside the block of lines
\* 97-98; a probe is answered only to a call that holds no lock, before and after;
\* and no worker step touches active_channels.
LockDiscipline ==
    [][/\ Cardinality({i \in 1..Len(futures') : Holding(futures'[i])}) <= 1
       /\ (url_status_cache' # url_status_cache) =>
             \E i \in 1..Len(futures) :
                /\ futures[i].st = "store"
                /\ futures'[i].st = "done"
                /\ \A u \in Urls \ {futures[i].url} :
                      url_status_cache'[u] = url_status_cache[u]
       /\ \A i \in 1..Len(futures) :
             /\ (futures'[i].cached /\ ~futures[i].cached) => futures[i].st = "lookup"
             /\ (futures'[i].head # futures[i].head \/ futures'[i].get # futures[i].get) =>
                   ~Holding(futures[i]) /\ ~Holding(futures'[i])
       /\ active_channels' = active_channels]_vars

\* one call is inside the block that stores its result while another waits at a
\* `with self.lock`
LockContended ==
    /\ pc = "locks"
    /\ \E i, j \in 1..Len(futures) :
          /\ futures[i].st = "store"
          /\ futures[j].st \in {"submitted", "wait"}

\* the URLs of this run in the order in which they were enqueued, if the queue is FIFO
EnqueueOrder == fetched \o processing_queue

\* along that order the distance from the seeds never decreases
LayerOrder ==
    \A i, j \in 1..Len(EnqueueOrder) :
       /\ depth[EnqueueOrder[i]] >= 0
       /\ i < j => depth[EnqueueOrder[i]] <= depth[EnqueueOrder[j]]

\* C19: within a run a URL is enqueued at the end of the queue and fetched from
\* its front, so the URLs are fetched in the order of their enqueueing, the seeds
\* first; and every URL at distance d from the seeds comes before every URL at
\* distance d+1, in the fetches and in the queue.
BreadthFirst ==
    [][/\ (runs' = runs) =>
             /\ IsPrefix(EnqueueOrder, EnqueueOrder')
             /\ fetched' = fetched \/ fetched' = Append(fetched, Head(processing_queue))
       /\ (runs' # runs) => fetched' = <<>> /\ \A u \in Range(processing_queue') : depth'[u] = 0
       /\ LayerOrder']_vars

\* a seed and a playlist it names have been fetched, and a playlist that the
\* second names waits in the queue
ThirdLayerQueued ==
    /\ \E u \in Range(fetched) : depth[u] = 0
    /\ \E u \in Range(fetched) : depth[u] = 1
    /\ \E u \in Range(processing_queue) : depth[u] = 2

\* C20: a call that found no cached result returns live exactly when HEAD gave a
\* status below 400, or HEAD failed and GET gave a status below 400; it sends
\* HEAD once, and GET once and only after a HEAD that failed; and the step on
\* which it returns leaves its result in the cache under its URL.  A call that
\* found a cached result returns it and sends nothing.
ProbeSemantics ==
    [][\A i \in 1..Len(futures) :
          LET f == futures[i]
              g == futures'[i]
          IN  /\ (g.st = "done" /\ f.st # "done" /\ ~g.cached) =>
                    /\ g.live = LiveFrom(g.head, g.get)
                    /\ g.head \in {"ok", "fail"}
                    /\ g.head = "ok" => g.get = "none"
                    /\ g.head = "fail" => g.get \in {"ok", "fail"}
                    /\ url_status_cache'[g.url] = StatusOf(g.live)
              /\ (g.st = "done" /\ f.st # "done" /\ g.cached) =>
                    /\ g.head = "none" /\ g.get = "none"
                    /\ g.live = (url_status_cache[g.url] = "live")
                    /\ url_status_cache' = url_status_cache
              /\ (g.head # f.head) => f.head = "none" /\ f.get = "none"
              /\ (g.get # f.get) => f.head = "fail" /\ f.get = "none"]_vars

\* a call whose HEAD failed has returned live on the strength of its GET
LiveByFallback ==
    /\ pc = "calls"
    /\ \E i \in 1..Len(futures) :
          /\ futures[i].st = "done"
          /\ futures[i].head = "fail"
          /\ futures[i].get = "ok"
          /\ futures[i].live
          /\ url_status_cache[futures[i].url] = "live"

\* the entry the M3U parser is to commit for a terminal URL u: the pending entry
\* when there is one, else an entry named by the last segment of u's path, in
\* "Raw Streams", with the default logo
ExpectedEntry(cur, u, src) ==
    IF cur # <<>>
    THEN MkEntry(cur[1].name, cur[1].logo, cur[1].group, u, cur[1].source)
    ELSE MkEntry(<<u.file>>, default_logo, "Raw Streams", u, src)

\* C21: in the M3U parser, a URL line consumes the pending entry; a nested
\* playlist is re-queued and nothing is committed; a terminal URL that is in
\* seen_urls is dropped; a terminal URL that is new is committed, with the pending
\* name, logo and category when an entry is pending and else as a raw stream; and
\* a line that is no URL line commits nothing and re-queues nothing.
PendingEntryConsumed ==
    [][(pc = "parse" /\ step'.n = step.n + 1) =>
          IF step'.ref = <<>>
          THEN channels' = channels /\ seen_urls' = seen_urls /\ step'.requeue = step.requeue
          ELSE LET u == step'.ref[1]
               IN  /\ step'.cur = <<>>
                   /\ IF PlaylistFamily(u)
                      THEN /\ step'.requeue = Append(step.requeue, u)
                           /\ channels' = channels
                      ELSE /\ step'.requeue = step.requeue
                           /\ channels' =
                                 IF u \in seen_urls THEN channels
                                 ELSE Append(channels, ExpectedEntry(step.cur, u, step.url[1]))]_vars

\* the place of n among the numbers of S, counted from the smallest
Rank(S, n) == Cardinality({m \in S : m <= n})

\* C22: when the PLS parser returns, with N ranging over the numbers that have a
\* File<N> value: the values that name a nested playlist make up the re-queue
\* list, in ascending order of N; the others, where the URL is not in seen_urls
\* and no smaller N has the same URL, are appended to the store in ascending
\* order of N, each in "PLS Streams" with the default logo and the name Title<N>,
\* or "Stream <N> from <source>" when the title is missing or blank; a Title<N>
\* without File<N> gives nothing; and the parser returns, also with no entry.
PlsCandidatesInOrder ==
    [][(pc = "pls" /\ pc' = "crawl") =>
          LET E == step.entries
              src == step.url[1]
              Ns == {n \in DOMAIN E : E[n].url # <<>>}
              nested == {n \in Ns : PlaylistFamily(E[n].url[1])}
              term == Ns \ nested
              new == {n \in term : /\ E[n].url[1] \notin seen_urls
                                   /\ \A m \in term : m < n => E[m].url[1] # E[n].url[1]}
          IN  /\ step'.kind = "returned"
              /\ Len(step'.requeue) = Cardinality(nested)
              /\ \A n \in nested : step'.requeue[Rank(nested, n)] = E[n].url[1]
              /\ IsPrefix(channels, channels')
              /\ Len(channels') = Len(channels) + Cardinality(new)
              /\ \A n \in new :
                    channels'[Len(channels) + Rank(new, n)] =
                       MkEntry(IF E[n].name = <<>> \/ E[n].name = <<"">>
                               THEN <<"Stream", ToString(n), "from", src.file>>
                               ELSE E[n].name,
                               default_logo, "PLS Streams", E[n].url[1], src)]_vars

\* a PLS text gave File2 before File1, both streams: the parser has returned and
\* the entry of File1 stands before that of File2
PlsCommittedAscending ==
    /\ step.kind = "returned"
    /\ step.fmt = "PLS"
    /\ DOMAIN step.entries = {1, 2}
    /\ step.entries[1].url # <<>> /\ step.entries[2].url # <<>>
    /\ step.ref = step.entries[1].url
    /\ Len(channels) >= 2
    /\ channels[Len(channels) - 1].url = step.entries[1].url[1]
    /\ channels[Len(channels)].url = step.entries[2].url[1]

\* C23: while a run is in the crawl (the point where an exception leaves it
\* included), seen_urls is the set of the URLs of the store's entries; at all
\* times every queued URL is in the visited set, no URL is queued twice, and the
\* visited set is the URLs popped so far together with the URLs queued; after
\* validation the URLs of the store are in seen_urls.
CrawlBookkeeping ==
    /\ pc \in CrawlPcs \cup {"aborted"} => seen_urls = StreamUrls(channels)
    /\ Range(processing_queue) \subseteq visited
    /\ NoRepeat(processing_queue)
    /\ visited = Range(fetched) \cup Range(processing_queue)
    /\ pc \in {"validate", "done"} => StreamUrls(channels) \subseteq seen_urls

====
